---- MODULE Spec2Model ----
(***************************************************************************)
(* A model of src/src/App.tsx (browser-vm/midi2wav): the MIDI upload       *)
(* handlers, convertToWav, processMidiWithSoundfont and audioBufferToWav.  *)
(*                                                                         *)
(* Numbers.  Times are counted in ticks of 1/TimeDen second, so that       *)
(* midi.duration * ctx.sampleRate is the rational ticks*rate/TimeDen.      *)
(* A buffer sample is the rational n/SampleDen, held as its numerator n.   *)
(* DataView stores keep their width: a value is reduced modulo 2^8, 2^16   *)
(* or 2^32 and written little-endian, one byte per array cell.             *)
(***************************************************************************)
EXTENDS Integers, Sequences, FiniteSets, TLC

\* ------------------------------------------------------------- bounds
MaxFrames == 2
MaxCells == 4
SampleDen == 2
TimeDen == 88200
MaxTime == 1
MaxDur == 2
MaxTracks == 2
MaxNotes == 2
MaxRequests == 2
MaxUploads == 2

\* ---------------------------------------------------- program constants
NumChannels == 2
HeaderLen == 44
RiffExtra == 36
FmtChunkSize == 16
PcmFormat == 1
BitsPerSample == 16
BytesPerSample == 2
NegScale == 32768
PosScale == 32767

\* 'RIFF', 'WAVE', 'fmt ' and 'data' as their char codes (string.charCodeAt)
RIFF == <<82, 73, 70, 70>>
WAVE == <<87, 65, 86, 69>>
FMT == <<102, 109, 116, 32>>
DATA == <<100, 97, 116, 97>>

SampleRates == {44100, 48000}

\* ------------------------------------------------------------ DataView
\* v modulo 2^32, taken half by half
ToUint32(v) == (v % 65536) + 65536 * ((v \div 65536) % 65536)

\* view.setUint8(offset, v)
SetUint8(view, off, v) == [view EXCEPT ![off] = v % 256]

\* view.setUint16(offset, v, true): v modulo 2^16, low byte first
SetUint16(view, off, v) ==
  LET w == v % 65536
  IN  [view EXCEPT ![off] = w % 256, ![off + 1] = w \div 256]

\* view.setUint32(offset, v, true): v modulo 2^32, low byte first
SetUint32(view, off, v) ==
  LET w == ToUint32(v)
  IN  [view EXCEPT ![off] = w % 256,
                   ![off + 1] = (w \div 256) % 256,
                   ![off + 2] = (w \div 65536) % 256,
                   ![off + 3] = w \div 16777216]

\* The integer part of num/den (den > 0), rounded toward zero as ToInt16 does.
TruncDiv(num, den) == IF num >= 0 THEN num \div den ELSE -((-num) \div den)

\* view.setInt16(offset, x, true) for the number x = num/den: truncate, reduce
\* modulo 2^16, store the two's-complement pattern low byte first.
SetInt16(view, off, num, den) == SetUint16(view, off, TruncDiv(num, den))

\* view.getUint16 / getUint32 / getInt16 (offset, true): the decoders.
GetUint16(view, off) == view[off] + 256 * view[off + 1]

GetUint32(view, off) ==
  view[off] + 256 * view[off + 1] + 65536 * view[off + 2] + 16777216 * view[off + 3]

GetInt16(view, off) ==
  LET u == GetUint16(view, off) IN IF u >= 32768 THEN u - 65536 ELSE u

\* writeString(offset, string): one setUint8 per character, in order.
RECURSIVE WriteStringFrom(_, _, _, _)
WriteStringFrom(view, off, str, i) ==
  IF i > Len(str) THEN view
  ELSE WriteStringFrom(SetUint8(view, off + (i - 1), str[i]), off, str, i + 1)

writeString(view, off, str) == WriteStringFrom(view, off, str, 1)

\* ------------------------------------------------------ audioBufferToWav
\* An AudioBuffer is [numberOfChannels, length, sampleRate, data], data[i][j]
\* the numerator of frame j-1 of channel i-1.

\* Math.max(-1, Math.min(1, x)) on the numerator of x.
MinNum(a, b) == IF a < b THEN a ELSE b
MaxNum(a, b) == IF a > b THEN a ELSE b
\* Mutant: the clamp is left out.
ClampOmitted(n) == n

Clamp(n) == MaxNum(-SampleDen, MinNum(SampleDen, n))

\* Mutant: both signs scaled by 0x7FFF.
ScaleSymmetric(s) == s * PosScale

\* sample < 0 ? sample * 0x8000 : sample * 0x7FFF, as a numerator over SampleDen
Scale(s) == IF s < 0 THEN s * NegScale ELSE s * PosScale

\* One pass of the inner loop body: the store of frame j of channel i.
WriteSample(view, buffer, i, j) ==
  LET index == HeaderLen + (j * buffer.numberOfChannels + i) * BytesPerSample
      sample == Clamp(buffer.data[i + 1][j + 1])
  IN  SetInt16(view, index, Scale(sample), SampleDen)

\* for (i ...) for (j ...): channel-major order, as the code walks it.
RECURSIVE WriteSamplesFrom(_, _, _, _)
WriteSamplesFrom(view, buffer, i, j) ==
  IF i >= buffer.numberOfChannels THEN view
  ELSE IF j >= buffer.length THEN WriteSamplesFrom(view, buffer, i + 1, 0)
  ELSE WriteSamplesFrom(WriteSample(view, buffer, i, j), buffer, i, j + 1)

\* Mutant: the byte rate is written without the bytes per sample.
WriteHeaderByteRate(view, buffer, length) ==
  LET c == buffer.numberOfChannels
      v1 == writeString(view, 0, RIFF)
      v2 == SetUint32(v1, 4, RiffExtra + length)
      v3 == writeString(v2, 8, WAVE)
      v4 == writeString(v3, 12, FMT)
      v5 == SetUint32(v4, 16, FmtChunkSize)
      v6 == SetUint16(v5, 20, PcmFormat)
      v7 == SetUint16(v6, 22, c)
      v8 == SetUint32(v7, 24, buffer.sampleRate)
      v9 == SetUint32(v8, 28, buffer.sampleRate * c)
      v10 == SetUint16(v9, 32, c * BytesPerSample)
      v11 == SetUint16(v10, 34, BitsPerSample)
      v12 == writeString(v11, 36, DATA)
  IN  SetUint32(v12, 40, length)

\* The header stores, in the code's order.
WriteHeader(view, buffer, length) ==
  LET c == buffer.numberOfChannels
      v1 == writeString(view, 0, RIFF)
      v2 == SetUint32(v1, 4, RiffExtra + length)
      v3 == writeString(v2, 8, WAVE)
      v4 == writeString(v3, 12, FMT)
      v5 == SetUint32(v4, 16, FmtChunkSize)
      v6 == SetUint16(v5, 20, PcmFormat)
      v7 == SetUint16(v6, 22, c)
      v8 == SetUint32(v7, 24, buffer.sampleRate)
      v9 == SetUint32(v8, 28, buffer.sampleRate * c * BytesPerSample)
      v10 == SetUint16(v9, 32, c * BytesPerSample)
      v11 == SetUint16(v10, 34, BitsPerSample)
      v12 == writeString(v11, 36, DATA)
  IN  SetUint32(v12, 40, length)

\* The bytes of the Blob audioBufferToWav returns.
audioBufferToWav(buffer) ==
  LET length == buffer.length * buffer.numberOfChannels * BytesPerSample
      arrayBuffer == [k \in 0..(HeaderLen + length - 1) |-> 0]
  IN  WriteSamplesFrom(WriteHeader(arrayBuffer, buffer, length), buffer, 0, 0)

\* --------------------------------------------------------------- values
\* A nullable reference or state value: <<>> is null, <<x>> holds x.
Null == <<>>
Some(x) == <<x>>
Val(r) == r[1]

\* A File is [name, kind]; name.endsWith('.mid') looks at name.ext only.
FileName(stem, ext) == [stem |-> stem, ext |-> ext]

\* file.name.endsWith(suffix)
EndsWith(name, ext) == name.ext = ext

\* name.replace('.mid', '.wav')
ReplaceExt(name, from, to) == IF name.ext = from THEN [name EXCEPT !.ext = to] ELSE name

\* A note of @tonejs/midi: midi (key), velocity, time and duration in ticks.
Note(m, v, t, d) == [midi |-> m, velocity |-> v, time |-> t, duration |-> d]

Pitches == {69}
Velocities == {127}

Notes ==
  { Note(m, v, t, d) : m \in Pitches, v \in Velocities, t \in 0..MaxTime, d \in 1..MaxDur }

\* A track's notes are kept in time order by the parser.
IsTimeSorted(ns) == \A i \in 1..(Len(ns) - 1) : ns[i].time <= ns[i + 1].time

\* The tracks of exactly n notes.
TracksOfLen(n) == { ns \in [1..n -> Notes] : IsTimeSorted(ns) }

RECURSIVE NoteCountFrom(_, _)
NoteCountFrom(tracks, i) ==
  IF i > Len(tracks) THEN 0 ELSE Len(tracks[i]) + NoteCountFrom(tracks, i + 1)

\* The number of note events of all tracks.
NoteCount(tracks) == NoteCountFrom(tracks, 1)

\* The timelines of exactly n tracks holding at most budget notes in all.
RECURSIVE TimelinesOf(_, _)
TimelinesOf(n, budget) ==
  IF n = 0 THEN { <<>> }
  ELSE UNION { { <<t>> \o rest : rest \in TimelinesOf(n - 1, budget - k), t \in TracksOfLen(k) }
               : k \in 0..budget }

\* Every timeline of at most MaxTracks tracks and MaxNotes notes in all.
Timelines == UNION { TimelinesOf(n, MaxNotes) : n \in 0..MaxTracks }

\* ---------------------------------------------------------- midi.duration
\* Track.duration: 0 without notes, else the largest time + duration, taken
\* from the last note and raised by each earlier one in turn.
RECURSIVE TrackDurationFrom(_, _, _)
TrackDurationFrom(ns, i, maxDuration) ==
  IF i > Len(ns) - 1 THEN maxDuration
  ELSE LET duration == ns[i].time + ns[i].duration
       IN  TrackDurationFrom(ns, i + 1, IF maxDuration < duration THEN duration ELSE maxDuration)

TrackDuration(ns) ==
  IF Len(ns) = 0 THEN 0
  ELSE TrackDurationFrom(ns, 1, ns[Len(ns)].time + ns[Len(ns)].duration)

RECURSIVE MaxOfTracksFrom(_, _, _)
MaxOfTracksFrom(tracks, i, acc) ==
  IF i > Len(tracks) THEN acc
  ELSE MaxOfTracksFrom(tracks, i + 1, MaxNum(acc, TrackDuration(tracks[i])))

\* Math.max(...durations) is -Infinity for no track: [inf |-> TRUE].
MidiDuration(tracks) ==
  IF Len(tracks) = 0 THEN [inf |-> TRUE, ticks |-> 0]
  ELSE [inf |-> FALSE, ticks |-> MaxOfTracksFrom(tracks, 2, TrackDuration(tracks[1]))]

\* Mutant: Math.floor in place of Math.ceil.
FloorDiv(a, b) == a \div b

\* Math.ceil(a / b) for a >= 0, b > 0
CeilDiv(a, b) == (a + b - 1) \div b

\* Mutant: the length is raised to at least one frame.
OfflineLengthAtLeastOne(tracks, sampleRate) ==
  LET d == MidiDuration(tracks)
  IN  IF d.inf THEN 1 ELSE MaxNum(1, ToUint32(CeilDiv(d.ticks * sampleRate, TimeDen)))

\* Math.ceil(midi.duration * ctx.sampleRate), passed as an unsigned long:
\* -Infinity becomes 0, a finite value is taken modulo 2^32.
OfflineLength(tracks, sampleRate) ==
  LET d == MidiDuration(tracks)
  IN  IF d.inf THEN 0 ELSE ToUint32(CeilDiv(d.ticks * sampleRate, TimeDen))

\* ------------------------------------------------------------ the files
\* kind: "ok" parses, "corrupt" makes new Midi(...) throw, "unreadable" makes
\* file.arrayBuffer() reject.
File(stem, ext, kind, tracks) ==
  [name |-> FileName(stem, ext), kind |-> kind, tracks |-> tracks]

MidiFiles ==
  { File("a", "mid", "ok", << <<Note(69, 127, 0, 1)>> >>),
    File("b", "mid", "ok", << <<Note(69, 127, 1, 1)>>, <<Note(69, 127, 0, 1)>> >>),
    File("e", "mid", "ok", << << >> >>),
    File("x", "mid", "corrupt", << >>),
    File("t", "txt", "ok", << >>) }

SoundfontFiles ==
  { File("s", "sf2", "ok", << >>), File("v", "sf2", "unreadable", << >>),
    File("u", "txt", "ok", << >>) }

\* The file of the timelines drawn for a single render.
RenderFile(tracks) == File("r", "mid", "ok", tracks)

\* new Midi(arrayBuffer): the parsed timeline, with the file it was read from.
NewMidi(file) == [src |-> file, tracks |-> file.tracks]

\* ---------------------------------------------------------------- state
VARIABLES
  audioContextRef,   \* audioContextRef.current: [sampleRate]
  midiDataRef,       \* midiDataRef.current: Null or Some(Midi)
  soundfontDataRef,  \* soundfontDataRef.current: Null or Some(file)
  state,             \* the useState values after every update queued so far
  rendered,          \* the useState values of the last committed render
  midiUploads,       \* MIDI files whose arrayBuffer() is awaited
  sfUploads,         \* soundfont files whose arrayBuffer() is awaited
  reqs,              \* the calls of convertToWav, in order
  downloads,         \* the downloads a.click() started, in order
  nUploads,          \* the uploads started so far
  encBuffer,         \* an AudioBuffer handed to audioBufferToWav
  encWav             \* Null or Some(the bytes it returned)

vars ==
  <<audioContextRef, midiDataRef, soundfontDataRef, state, rendered, midiUploads,
    sfUploads, reqs, downloads, nUploads, encBuffer, encWav>>

appVars ==
  <<audioContextRef, midiDataRef, soundfontDataRef, state, rendered, midiUploads,
    sfUploads, reqs, downloads, nUploads>>

encVars == <<encBuffer, encWav>>

\* ------------------------------------------------------------ error texts
NoError == <<>>
ErrorText(prefix, message) == <<prefix, message>>

\* useState(null), useState(null), useState(false), useState(''), useState(0)
InitialState ==
  [midiFile |-> Null, soundfontFile |-> Null, isConverting |-> FALSE,
   error |-> NoError, progress |-> 0]

NoBuffer == [numberOfChannels |-> 0, length |-> 0, sampleRate |-> 0, data |-> <<>>]

\* ----------------------------------------------------- the offline render
\* The postMessage calls of one track's notes: noteOn, then noteOff, per note.
RECURSIVE NoteMessagesFrom(_, _)
NoteMessagesFrom(ns, j) ==
  IF j > Len(ns) THEN <<>>
  ELSE LET note == ns[j]
           noteOnTime == note.time
           noteOffTime == noteOnTime + note.duration
       IN  << [type |-> "noteOn", note |-> note.midi, velocity |-> note.velocity,
               time |-> noteOnTime],
              [type |-> "noteOff", note |-> note.midi, time |-> noteOffTime] >>
           \o NoteMessagesFrom(ns, j + 1)

\* Mutant: the tracks are walked from the last to the first.
RECURSIVE TrackMessagesBackFrom(_, _)
TrackMessagesBackFrom(tracks, i) ==
  IF i > Len(tracks) THEN <<>>
  ELSE TrackMessagesBackFrom(tracks, i + 1) \o NoteMessagesFrom(tracks[i], 1)

\* midi.tracks.forEach(track => track.notes.forEach(...)): track by track.
RECURSIVE TrackMessagesFrom(_, _)
TrackMessagesFrom(tracks, i) ==
  IF i > Len(tracks) THEN <<>>
  ELSE NoteMessagesFrom(tracks[i], 1) \o TrackMessagesFrom(tracks, i + 1)

\* if (soundfontDataRef.current) postMessage({type: 'loadSoundfont', ...})
LoadMessages(sf) ==
  IF sf = Null THEN <<>>
  ELSE << [type |-> "loadSoundfont", data |-> Val(sf)] >>

\* Everything posted to synthNode.port before startRendering.
PostedMessages(tracks, sf) == LoadMessages(sf) \o TrackMessagesFrom(tracks, 1)

\* SoundfontProcessor.process(inputs, outputs) returns true and writes nothing:
\* a frame of its output stays the 0 it was allocated with, whatever was posted
\* (the processor sets no port.onmessage).
WorkletSample(posted, channel, frame) == 0

\* offlineCtx.startRendering(): the destination's buffer.
StartRendering(offline, posted) ==
  [numberOfChannels |-> offline.numberOfChannels,
   length |-> offline.length,
   sampleRate |-> offline.sampleRate,
   data |-> [c \in 1..offline.numberOfChannels |->
              [f \in 1..offline.length |-> WorkletSample(posted, c - 1, f - 1)]]]

\* ------------------------------------------------------------- requests
NewRequest(file, midi, offline, pc) ==
  [file |-> file, midi |-> midi, offline |-> offline, posted |-> <<>>,
   buffer |-> Null, wav |-> Null, pc |-> pc, errors |-> 0, message |-> ""]

\* Mutant: the catch block leaves the converting flag set.
CatchStateKeepsFlag(st, message) ==
  [st EXCEPT !.error = ErrorText("Error converting MIDI: ", message),
             !.progress = 0]

\* catch (err) { setError(...); setIsConverting(false); setProgress(0); }
CatchState(st, message) ==
  [st EXCEPT !.error = ErrorText("Error converting MIDI: ", message),
             !.isConverting = FALSE,
             !.progress = 0]

Failed(req, message) ==
  [req EXCEPT !.pc = "failed", !.errors = @ + 1, !.message = message]

\* The <button onClick={convertToWav} disabled={!midiFile || isConverting}>
ConvertEnabled == rendered.midiFile # Null /\ ~rendered.isConverting

\* A click on Convert: convertToWav up to its await, with the synchronous part
\* of processMidiWithSoundfont.  The three updates of the try block are flushed
\* with the click; a throw before the first await reaches the catch block in
\* the same turn.
ClickUpTo(limit) ==
  /\ ConvertEnabled
  /\ Len(reqs) < limit
  /\ LET midiFile == rendered.midiFile
         flushed == [rendered EXCEPT !.isConverting = TRUE, !.error = NoError,
                                     !.progress = 0]
         begun == [state EXCEPT !.isConverting = TRUE, !.error = NoError,
                                !.progress = 0]
     IN  IF midiFile = Null
         THEN /\ state' = [state EXCEPT !.error =
                             ErrorText("Please upload a MIDI file first", "")]
              /\ rendered' = [rendered EXCEPT !.error =
                             ErrorText("Please upload a MIDI file first", "")]
              /\ UNCHANGED reqs
         ELSE /\ rendered' = flushed
              /\ IF audioContextRef = Null \/ midiDataRef = Null
                 THEN LET message == "Audio context or MIDI data not initialized"
                      IN  /\ reqs' = Append(reqs, Failed(
                                       NewRequest(Val(midiFile), Null, Null, "start"),
                                       message))
                          /\ state' = CatchState(begun, message)
                 ELSE LET ctx == Val(audioContextRef)
                          midi == Val(midiDataRef)
                          length == OfflineLength(midi.tracks, ctx.sampleRate)
                      IN  IF length = 0
                          THEN /\ reqs' = Append(reqs, Failed(
                                            NewRequest(Val(midiFile), Some(midi), Null,
                                                       "start"),
                                            "NotSupportedError"))
                               /\ state' = CatchState(begun, "NotSupportedError")
                          ELSE /\ reqs' = Append(reqs,
                                            NewRequest(Val(midiFile), Some(midi),
                                              Some([numberOfChannels |-> NumChannels,
                                                    length |-> length,
                                                    sampleRate |-> ctx.sampleRate]),
                                              "addModule"))
                               /\ state' = begun
  /\ UNCHANGED <<audioContextRef, midiDataRef, soundfontDataRef, midiUploads,
                 sfUploads, downloads, nUploads, encVars>>

Click == ClickUpTo(MaxRequests)

\* await offlineCtx.audioWorklet.addModule(...) resolves: the node is made, the
\* soundfont and the notes are posted, the node is connected and
\* startRendering() is called.
AddModuleResolved(i) ==
  /\ reqs[i].pc = "addModule"
  /\ reqs' = [reqs EXCEPT ![i].posted =
                PostedMessages(Val(reqs[i].midi).tracks, soundfontDataRef),
                          ![i].pc = "rendering"]
  /\ UNCHANGED <<audioContextRef, midiDataRef, soundfontDataRef, state, rendered,
                 midiUploads, sfUploads, downloads, nUploads, encVars>>

\* addModule rejects: the catch block of convertToWav runs.
AddModuleRejected(i) ==
  /\ reqs[i].pc = "addModule"
  /\ reqs' = [reqs EXCEPT ![i] = Failed(@, "addModule")]
  /\ state' = CatchState(state, "addModule")
  /\ UNCHANGED <<audioContextRef, midiDataRef, soundfontDataRef, rendered,
                 midiUploads, sfUploads, downloads, nUploads, encVars>>

\* await offlineCtx.startRendering() resolves: the buffer is encoded, returned
\* to convertToWav, downloaded under midiFile.name with .mid replaced, and the
\* flag and the progress are set.
RenderResolved(i) ==
  /\ reqs[i].pc = "rendering"
  /\ LET renderedBuffer == StartRendering(Val(reqs[i].offline), reqs[i].posted)
         wavData == audioBufferToWav(renderedBuffer)
     IN  /\ reqs' = [reqs EXCEPT ![i].buffer = Some(renderedBuffer),
                                 ![i].wav = Some(wavData),
                                 ![i].pc = "done"]
         /\ downloads' = Append(downloads,
                           [download |-> ReplaceExt(reqs[i].file.name, "mid", "wav"),
                            bytes |-> wavData, req |-> i])
  /\ state' = [state EXCEPT !.isConverting = FALSE, !.progress = 100]
  /\ UNCHANGED <<audioContextRef, midiDataRef, soundfontDataRef, rendered,
                 midiUploads, sfUploads, nUploads, encVars>>

\* startRendering rejects: the catch block of convertToWav runs.
RenderRejected(i) ==
  /\ reqs[i].pc = "rendering"
  /\ reqs' = [reqs EXCEPT ![i] = Failed(@, "startRendering")]
  /\ state' = CatchState(state, "startRendering")
  /\ UNCHANGED <<audioContextRef, midiDataRef, soundfontDataRef, rendered,
                 midiUploads, sfUploads, downloads, nUploads, encVars>>

\* React commits a render: the component and its handlers see every update.
ReactRender ==
  /\ rendered # state
  /\ rendered' = state
  /\ UNCHANGED <<audioContextRef, midiDataRef, soundfontDataRef, state,
                 midiUploads, sfUploads, reqs, downloads, nUploads, encVars>>

\* -------------------------------------------------------------- uploads
\* handleMidiUpload, the else branch: the name does not end with .mid.  The
\* update is made inside the change event and is flushed with it.
MidiUploadRefused(f) ==
  /\ nUploads < MaxUploads
  /\ ~EndsWith(f.name, "mid")
  /\ state' = [state EXCEPT !.error = ErrorText("Please upload a valid MIDI file", "")]
  /\ rendered' = [rendered EXCEPT !.error =
                    ErrorText("Please upload a valid MIDI file", "")]
  /\ nUploads' = nUploads + 1
  /\ UNCHANGED <<audioContextRef, midiDataRef, soundfontDataRef, midiUploads,
                 sfUploads, reqs, downloads, encVars>>

\* handleMidiUpload up to await file.arrayBuffer()
MidiUploadStart(f) ==
  /\ nUploads < MaxUploads
  /\ EndsWith(f.name, "mid")
  /\ midiUploads' = midiUploads \cup {f}
  /\ nUploads' = nUploads + 1
  /\ UNCHANGED <<audioContextRef, midiDataRef, soundfontDataRef, state, rendered,
                 sfUploads, reqs, downloads, encVars>>

\* The await resolves and new Midi(arrayBuffer) parses: the ref is set at once,
\* the two state updates wait for the next render.
MidiUploadLoaded(f) ==
  /\ f \in midiUploads
  /\ f.kind = "ok"
  /\ midiUploads' = midiUploads \ {f}
  /\ midiDataRef' = Some(NewMidi(f))
  /\ state' = [state EXCEPT !.midiFile = Some(f), !.error = NoError]
  /\ UNCHANGED <<audioContextRef, soundfontDataRef, rendered, sfUploads, reqs,
                 downloads, nUploads, encVars>>

\* The await rejects or new Midi(arrayBuffer) throws: the catch block.
MidiUploadFailed(f) ==
  /\ f \in midiUploads
  /\ f.kind # "ok"
  /\ midiUploads' = midiUploads \ {f}
  /\ state' = [state EXCEPT !.error = ErrorText("Invalid MIDI file: ", f.kind)]
  /\ UNCHANGED <<audioContextRef, midiDataRef, soundfontDataRef, rendered, sfUploads,
                 reqs, downloads, nUploads, encVars>>

\* handleSoundfontUpload, the else branch
SoundfontUploadRefused(f) ==
  /\ nUploads < MaxUploads
  /\ ~EndsWith(f.name, "sf2")
  /\ state' = [state EXCEPT !.error =
                 ErrorText("Please upload a valid Soundfont file (.sf2)", "")]
  /\ rendered' = [rendered EXCEPT !.error =
                    ErrorText("Please upload a valid Soundfont file (.sf2)", "")]
  /\ nUploads' = nUploads + 1
  /\ UNCHANGED <<audioContextRef, midiDataRef, soundfontDataRef, midiUploads,
                 sfUploads, reqs, downloads, encVars>>

\* handleSoundfontUpload up to await file.arrayBuffer()
SoundfontUploadStart(f) ==
  /\ nUploads < MaxUploads
  /\ EndsWith(f.name, "sf2")
  /\ sfUploads' = sfUploads \cup {f}
  /\ nUploads' = nUploads + 1
  /\ UNCHANGED <<audioContextRef, midiDataRef, soundfontDataRef, state, rendered,
                 midiUploads, reqs, downloads, encVars>>

\* The await resolves: soundfontDataRef.current = arrayBuffer, and two updates.
SoundfontUploadLoaded(f) ==
  /\ f \in sfUploads
  /\ f.kind = "ok"
  /\ sfUploads' = sfUploads \ {f}
  /\ soundfontDataRef' = Some(f)
  /\ state' = [state EXCEPT !.soundfontFile = Some(f), !.error = NoError]
  /\ UNCHANGED <<audioContextRef, midiDataRef, rendered, midiUploads, reqs,
                 downloads, nUploads, encVars>>

\* The await rejects: the catch block.
SoundfontUploadFailed(f) ==
  /\ f \in sfUploads
  /\ f.kind # "ok"
  /\ sfUploads' = sfUploads \ {f}
  /\ state' = [state EXCEPT !.error = ErrorText("Invalid Soundfont file: ", f.kind)]
  /\ UNCHANGED <<audioContextRef, midiDataRef, soundfontDataRef, rendered,
                 midiUploads, reqs, downloads, nUploads, encVars>>

\* ------------------------------------------------------- specifications
\* The component once mounted: the effect has made the AudioContext.
Init ==
  /\ audioContextRef \in { Some([sampleRate |-> r]) : r \in SampleRates }
  /\ midiDataRef = Null
  /\ soundfontDataRef = Null
  /\ state = InitialState
  /\ rendered = InitialState
  /\ midiUploads = {}
  /\ sfUploads = {}
  /\ reqs = <<>>
  /\ downloads = <<>>
  /\ nUploads = 0
  /\ encBuffer = NoBuffer
  /\ encWav = Null

Next ==
  \/ \E f \in MidiFiles : MidiUploadRefused(f)
  \/ \E f \in MidiFiles : MidiUploadStart(f)
  \/ \E f \in MidiFiles : MidiUploadLoaded(f)
  \/ \E f \in MidiFiles : MidiUploadFailed(f)
  \/ \E f \in SoundfontFiles : SoundfontUploadRefused(f)
  \/ \E f \in SoundfontFiles : SoundfontUploadStart(f)
  \/ \E f \in SoundfontFiles : SoundfontUploadLoaded(f)
  \/ \E f \in SoundfontFiles : SoundfontUploadFailed(f)
  \/ Click
  \/ \E i \in 1..Len(reqs) : AddModuleResolved(i)
  \/ \E i \in 1..Len(reqs) : AddModuleRejected(i)
  \/ \E i \in 1..Len(reqs) : RenderResolved(i)
  \/ \E i \in 1..Len(reqs) : RenderRejected(i)
  \/ ReactRender

Spec == Init /\ [][Next]_vars

\* One conversion of a timeline drawn from Timelines, uploaded and rendered
\* before the click.
InitRender ==
  /\ audioContextRef \in { Some([sampleRate |-> r]) : r \in SampleRates }
  /\ \E tl \in Timelines :
       /\ midiDataRef = Some(NewMidi(RenderFile(tl)))
       /\ state = [InitialState EXCEPT !.midiFile = Some(RenderFile(tl))]
       /\ rendered = state
  /\ soundfontDataRef \in { Null, Some(File("s", "sf2", "ok", << >>)) }
  /\ midiUploads = {}
  /\ sfUploads = {}
  /\ reqs = <<>>
  /\ downloads = <<>>
  /\ nUploads = 0
  /\ encBuffer = NoBuffer
  /\ encWav = Null

ClickOnce == ClickUpTo(1)

NextRender ==
  \/ ClickOnce
  \/ \E i \in 1..Len(reqs) : AddModuleResolved(i)
  \/ \E i \in 1..Len(reqs) : AddModuleRejected(i)
  \/ \E i \in 1..Len(reqs) : RenderResolved(i)
  \/ \E i \in 1..Len(reqs) : RenderRejected(i)
  \/ ReactRender

SpecRender == InitRender /\ [][NextRender]_vars

\* audioBufferToWav on its own, on every buffer of the bounds.
SampleNums == (-(SampleDen + 1))..(SampleDen + 1)

\* The buffers of at most NumChannels channels, MaxFrames frames and MaxCells
\* samples in all.
Buffers ==
  UNION { { [numberOfChannels |-> cf[1], length |-> cf[2], sampleRate |-> r, data |-> d] :
              r \in SampleRates, d \in [1..cf[1] -> [1..cf[2] -> SampleNums]] } :
          cf \in { x \in (1..NumChannels) \X (1..MaxFrames) : x[1] * x[2] <= MaxCells } }

InitEncoder ==
  /\ audioContextRef = Null
  /\ midiDataRef = Null
  /\ soundfontDataRef = Null
  /\ state = InitialState
  /\ rendered = InitialState
  /\ midiUploads = {}
  /\ sfUploads = {}
  /\ reqs = <<>>
  /\ downloads = <<>>
  /\ nUploads = 0
  /\ encBuffer \in Buffers
  /\ encWav = Null

Encode ==
  /\ encWav = Null
  /\ encWav' = Some(audioBufferToWav(encBuffer))
  /\ UNCHANGED <<appVars, encBuffer>>

NextEncoder == Encode

SpecEncoder == InitEncoder /\ [][NextEncoder]_vars

\* ------------------------------------------------------------ the claims
\* The stored 16-bit value of frame j of channel i (both from 0) of an encoding.
StoredSample(wav, channels, i, j) == GetInt16(wav, 44 + (j * channels + i) * 2)

\* The cells of the buffer handed to the encoder: <<channel, frame>>, from 0.
EncCells == (0..(encBuffer.numberOfChannels - 1)) \X (0..(encBuffer.length - 1))

EncSample(cell) == encBuffer.data[cell[1] + 1][cell[2] + 1]

EncStored(cell) ==
  StoredSample(Val(encWav), encBuffer.numberOfChannels, cell[1], cell[2])

\* C1: the encoding of a buffer of C channels, F frames and rate R is exactly
\* 44 + 2*C*F bytes, and its little-endian header fields decode to
\* 36 + 2*C*F, 16, 1, C, R, R*C*2, C*2, 16 and 2*C*F at offsets 4, 16, 20, 22,
\* 24, 28, 32, 34 and 40: the header gives back R, C and the data length.
C1_HeaderRoundTrip ==
  encWav # Null =>
    LET w == Val(encWav)
        C == encBuffer.numberOfChannels
        F == encBuffer.length
        R == encBuffer.sampleRate
    IN  /\ DOMAIN w = 0..(44 + 2 * C * F - 1)
        /\ \A k \in DOMAIN w : w[k] \in 0..255
        /\ <<w[0], w[1], w[2], w[3]>> = <<82, 73, 70, 70>>
        /\ GetUint32(w, 4) = 36 + 2 * C * F
        /\ <<w[8], w[9], w[10], w[11]>> = <<87, 65, 86, 69>>
        /\ <<w[12], w[13], w[14], w[15]>> = <<102, 109, 116, 32>>
        /\ GetUint32(w, 16) = 16
        /\ GetUint16(w, 20) = 1
        /\ GetUint16(w, 22) = C
        /\ GetUint32(w, 24) = R
        /\ GetUint32(w, 28) = R * C * 2
        /\ GetUint16(w, 32) = C * 2
        /\ GetUint16(w, 34) = 16
        /\ <<w[36], w[37], w[38], w[39]>> = <<100, 97, 116, 97>>
        /\ GetUint32(w, 40) = 2 * C * F

\* A stereo buffer of two frames at 48000 Hz has been encoded.
C1_Witness ==
  /\ encWav # Null
  /\ encBuffer.numberOfChannels = 2
  /\ encBuffer.length = 2
  /\ encBuffer.sampleRate = 48000
  /\ GetUint32(Val(encWav), 28) = 192000

\* C2: a sample of exactly 1.0 is stored as 32767, one of exactly -1.0 as -32768
\* and one of 0.0 as 0; within [-1, 1] a negative sample is scaled by 32768 and
\* a non-negative one by 32767, the product cut to its integer part.
C2_QuantizationBoundary ==
  encWav # Null =>
    \A cell \in EncCells :
      LET n == EncSample(cell)
          q == EncStored(cell)
      IN  /\ n = SampleDen => q = 32767
          /\ n = -SampleDen => q = -32768
          /\ n = 0 => q = 0
          /\ (n > -SampleDen /\ n < 0) => q = -((-n * 32768) \div SampleDen)
          /\ (n > 0 /\ n < SampleDen) => q = (n * 32767) \div SampleDen

\* An encoded buffer holds 1.0, -1.0, 0.0 and the negative fraction -1/SampleDen.
C2_Witness ==
  /\ encWav # Null
  /\ \E a, b, c, d \in EncCells :
       /\ EncSample(a) = SampleDen
       /\ EncSample(b) = -SampleDen
       /\ EncSample(c) = 0
       /\ EncSample(d) = -1
       /\ EncStored(d) = -((32768) \div SampleDen)

\* C3: whatever the sample, the encoder clamps before it scales: a sample of 1
\* or more is stored as 32767 and one of -1 or less as -32768, never as the
\* wrapped-around low 16 bits of the scaled value.
C3_ClampBeforeScale ==
  encWav # Null =>
    \A cell \in EncCells :
      LET n == EncSample(cell)
          q == EncStored(cell)
      IN  /\ q \in (-32768)..32767
          /\ n >= SampleDen => q = 32767
          /\ n <= -SampleDen => q = -32768

\* An encoded buffer holds a sample above 1 and one below -1.
C3_Witness ==
  /\ encWav # Null
  /\ \E a, b \in EncCells :
       /\ EncSample(a) > SampleDen
       /\ EncSample(b) < -SampleDen
       /\ EncStored(a) = 32767
       /\ EncStored(b) = -32768

\* The sample rate of the one AudioContext.
CtxRate == Val(audioContextRef).sampleRate

\* The note events of a timeline, as <<track, index>> positions.
Positions(tracks) ==
  UNION { { <<t, j>> : j \in 1..Len(tracks[t]) } : t \in 1..Len(tracks) }

EndOf(tracks, p) == tracks[p[1]][p[2]].time + tracks[p[1]][p[2]].duration

\* The largest startTime + duration over all events of all tracks, in ticks.
MaxEndTime(tracks) ==
  LET ends == { EndOf(tracks, p) : p \in Positions(tracks) }
  IN  CHOOSE e \in ends : \A e2 \in ends : e2 <= e

\* F = ceil(num / den): the least integer with F * den >= num.
IsCeilOf(F, num, den) == F * den >= num /\ (F - 1) * den < num

\* The tracks in the opposite order: a permutation of the input.
ReverseTracks(tracks) == [t \in 1..Len(tracks) |-> tracks[Len(tracks) + 1 - t]]

\* C4: for a timeline of at least one note event, the context, and the buffer
\* rendered from it, hold ceil(maxEndTime * sampleRate) frames, maxEndTime the
\* largest startTime + duration of all events of all tracks; the count is a
\* function of the set of events, and the same with the tracks permuted.
C4_FramesAreCeilOfMaxEnd ==
  \A i \in 1..Len(reqs) :
    LET r == reqs[i]
    IN  (r.midi # Null /\ NoteCount(Val(r.midi).tracks) >= 1) =>
          LET tracks == Val(r.midi).tracks
              total == MaxEndTime(tracks) * CtxRate
          IN  /\ r.offline # Null
              /\ IsCeilOf(Val(r.offline).length, total, TimeDen)
              /\ OfflineLength(ReverseTracks(tracks), CtxRate) = Val(r.offline).length
              /\ r.buffer # Null =>
                   /\ IsCeilOf(Val(r.buffer).length, total, TimeDen)
                   /\ \A c \in 1..Val(r.buffer).numberOfChannels :
                        Len(Val(r.buffer).data[c]) = Val(r.buffer).length

\* A buffer was rendered from two tracks, the longest note in the first, with
\* a duration that is not a whole number of frames.
C4_Witness ==
  \E i \in 1..Len(reqs) :
    /\ reqs[i].buffer # Null
    /\ LET tracks == Val(reqs[i].midi).tracks
       IN  /\ Len(tracks) = 2
           /\ Len(tracks[1]) >= 1 /\ Len(tracks[2]) >= 1
           /\ TrackDuration(tracks[1]) > TrackDuration(tracks[2])
           /\ Val(reqs[i].buffer).length * TimeDen > MaxEndTime(tracks) * CtxRate

\* The frames of a buffer of F frames that fall within a note's time span.
NoteFrames(note, F) ==
  { f \in 0..(F - 1) : /\ f * TimeDen >= note.time * CtxRate
                       /\ f * TimeDen < (note.time + note.duration) * CtxRate }

\* C8: after a render the channels are equal frame by frame, and every note of
\* non-zero velocity has left a non-zero sample among the frames of its range.
C8_NotesAreMixed ==
  \A i \in 1..Len(reqs) :
    reqs[i].buffer # Null =>
      LET buf == Val(reqs[i].buffer)
          tracks == Val(reqs[i].midi).tracks
      IN  /\ \A c \in 1..buf.numberOfChannels : buf.data[c] = buf.data[1]
          /\ \A p \in Positions(tracks) :
               LET note == tracks[p[1]][p[2]]
               IN  (note.velocity # 0 /\ NoteFrames(note, buf.length) # {}) =>
                     \E f \in NoteFrames(note, buf.length) : buf.data[1][f + 1] # 0

\* The noteOn messages of a request, in the order they were posted.
NoteOns(r) == SelectSeq(r.posted, LAMBDA msg : msg.type = "noteOn")

\* The number of notes in the tracks before track t.
RECURSIVE NotesBefore(_, _)
NotesBefore(tracks, t) ==
  IF t <= 1 THEN 0 ELSE Len(tracks[t - 1]) + NotesBefore(tracks, t - 1)

FailsNow(i) ==
  /\ reqs'[i].pc = "failed"
  /\ (i > Len(reqs) \/ reqs[i].pc # "failed")

C6_FailsOnceNoRetry ==
  [][\A i \in 1..Len(reqs') :
       /\ FailsNow(i) =>
            /\ reqs'[i].errors = 1
            /\ state'.error = ErrorText("Error converting MIDI: ", reqs'[i].message)
            /\ state'.error # NoError
            /\ state'.isConverting = FALSE
            /\ reqs'[i].wav = Null
            /\ downloads' = downloads
            /\ \A k \in 1..Len(downloads) : downloads[k].req # i
       /\ (i <= Len(reqs) /\ reqs[i].pc = "failed") =>
            /\ reqs'[i] = reqs[i]
            /\ \A k \in 1..Len(downloads') : downloads'[k].req # i
            /\ (i = Len(reqs') => state'.isConverting = FALSE)]_vars

\* A conversion failed at addModule or at startRendering, and after the failure
\* the caller has made a new request, which was delivered.
C6_Witness ==
  /\ Len(reqs) = 2
  /\ reqs[1].pc = "failed"
  /\ reqs[1].message \in {"addModule", "startRendering"}
  /\ reqs[2].pc = "done"

\* C10: every delivered WAV is named after the file whose parsed data was
\* rendered: the midiFile of the convertToWav closure and the Midi read from
\* midiDataRef come from the same upload.
C10_NameMatchesData ==
  \A k \in 1..Len(downloads) :
    LET r == reqs[downloads[k].req]
    IN  /\ r.file = Val(r.midi).src
        /\ downloads[k].download = ReplaceExt(Val(r.midi).src.name, "mid", "wav")

\* The conversions in flight.
InFlight == { i \in 1..Len(reqs) : reqs[i].pc \in {"addModule", "rendering"} }

\* No two conversions are in flight at once: the button is disabled from the
\* click to the render that follows the end of the conversion.
ConversionsNeverOverlap ==
  /\ Cardinality(InFlight) <= 1
  /\ InFlight # {} => (rendered.isConverting /\ state.isConverting)

====
